---- MODULE Spec2Model ----
(***************************************************************************)
(* Model of the fixed-capacity LRU cache of src/src/main.rs                *)
(* (LRUCache<T, N>, Entry<T>, IterMut).  A cache value is a record         *)
(*   [N, entries, head, tail, fault]                                       *)
(* where entries is the ArrayVec (slot i of the code is entries[i+1]),     *)
(* head/tail are the u16 indices and fault records an index panic or a     *)
(* scan that never ends.  Every method of the code is an operator on such  *)
(* a record, returning the new cache and the method's result.              *)
(***************************************************************************)
EXTENDS Integers, Sequences, FiniteSets, TLC

\* ---- bounds of the exploration ----------------------------------------
MaxN == 3          \* largest small capacity explored
MaxVal == 3        \* values are 1..MaxVal
MaxInserts == 3    \* inserts explored since the last new()/clear()
MaxMatch == 1      \* a predicate accepts at most this many values

\* ---- program constants ------------------------------------------------
U16Max == 65535    \* largest u16, the value an index sentinel would use
U16Mod == 65536    \* 2^16: `as u16` keeps a usize modulo this

Values == 1..MaxVal
\* a predicate is the set of values it accepts
Preds == {S \in SUBSET Values : Cardinality(S) <= MaxMatch}
Capacities == (0..MaxN) \cup {U16Mod}

VARIABLES
    N,            \* const generic capacity of the instance
    constructed,  \* new() has returned
    entries,      \* LRUCache.entries
    head,         \* LRUCache.head
    tail,         \* LRUCache.tail
    fault,        \* "none", "panic" (index out of bounds) or "hang" (scan never ends)
    op,           \* the last method called
    ret,          \* what it returned
    used,         \* number of different values handed to insert since the last new()/clear()
    inserts,      \* number of inserts since the last new()/clear()
    log,          \* values of the inserts made since the last new()/clear()/find/touch,
                  \* oldest first
    cleared,      \* clear() has been called on this instance
    recency,      \* reference recency list of values, most recent first
    refRet,       \* what the reference list gave up on the last insert
    fresh,        \* a second instance, rebuilt by new() each time the first is cleared
    freshRet      \* what the second instance returned for the last method

vars == <<N, constructed, entries, head, tail, fault, op, ret, used, inserts, log,
          cleared, recency, refRet, fresh, freshRet>>

\* ---- results ----------------------------------------------------------
None == [kind |-> "None", val |-> 0]
Some(v) == [kind |-> "Some", val |-> v]
Bool(b) == [kind |-> IF b THEN "true" ELSE "false", val |-> 0]
Usize(n) == [kind |-> "usize", val |-> n]
Unit == [kind |-> "unit", val |-> 0]
Diverged(f) == [kind |-> f, val |-> 0]      \* the call did not return: "panic" or "hang"

Result(c, r) == [c |-> c, ret |-> IF c.fault = "none" THEN r ELSE Diverged(c.fault)]

\* ---- the cache as a value ----------------------------------------------
Self == [N |-> N, entries |-> entries, head |-> head, tail |-> tail, fault |-> fault]

AsU16(n) == n % U16Mod

Entry(v) == [val |-> v, prev |-> 0, next |-> 0]

new(n) == [N |-> n, entries |-> <<>>, head |-> 0, tail |-> 0, fault |-> "none"]

len(c) == Len(c.entries)

is_empty(c) == IF len(c) = 0 THEN TRUE ELSE FALSE

\* mutant: treats a cache with one free slot as full
is_full_early(c) == Len(c.entries) + 1 >= c.N

is_full(c) == Len(c.entries) = c.N

\* entries[i]: an index outside the occupied storage panics
InBounds(c, i) == i < Len(c.entries)
Panic(c) == [c EXCEPT !.fault = "panic"]
entry(c, i) == c.entries[i + 1]

pop_back(c) ==
    IF c.fault # "none" THEN [c |-> c, i |-> 0]
    ELSE IF ~InBounds(c, c.tail) THEN [c |-> Panic(c), i |-> 0]
    ELSE [c |-> [c EXCEPT !.tail = entry(c, c.tail).prev], i |-> c.tail]

\* mutant: links the slot but forgets to move head to it
push_front_nohead(c, i) ==
    IF c.fault # "none" THEN c
    ELSE IF Len(c.entries) = 1 THEN [c EXCEPT !.tail = i]
    ELSE IF ~InBounds(c, i) THEN Panic(c)
    ELSE LET c1 == [c EXCEPT !.entries[i + 1].next = c.head]
         IN  IF ~InBounds(c1, c1.head) THEN Panic(c1)
             ELSE [c1 EXCEPT !.entries[c1.head + 1].prev = i]

\* mutant: no special case for the only element, always links to the old head
push_front_always_link(c, i) ==
    IF c.fault # "none" THEN c
    ELSE IF ~InBounds(c, i) THEN Panic(c)
    ELSE LET c1 == [c EXCEPT !.entries[i + 1].next = c.head]
         IN  IF ~InBounds(c1, c1.head) THEN Panic(c1)
             ELSE [c1 EXCEPT !.entries[c1.head + 1].prev = i, !.head = i]

\* mutant: links the new head to the tail instead of the old head
push_front_next_tail(c, i) ==
    IF c.fault # "none" THEN c
    ELSE IF Len(c.entries) = 1 THEN [c EXCEPT !.tail = i, !.head = i]
    ELSE IF ~InBounds(c, i) THEN Panic(c)
    ELSE LET c1 == [c EXCEPT !.entries[i + 1].next = c.tail]
         IN  IF ~InBounds(c1, c1.head) THEN Panic(c1)
             ELSE [c1 EXCEPT !.entries[c1.head + 1].prev = i, !.head = i]

\* mutant: the only element becomes head but tail keeps its old value
push_front_no_tail(c, i) ==
    IF c.fault # "none" THEN c
    ELSE IF Len(c.entries) = 1 THEN [c EXCEPT !.head = i]
    ELSE IF ~InBounds(c, i) THEN Panic(c)
    ELSE LET c1 == [c EXCEPT !.entries[i + 1].next = c.head]
         IN  IF ~InBounds(c1, c1.head) THEN Panic(c1)
             ELSE [c1 EXCEPT !.entries[c1.head + 1].prev = i, !.head = i]

push_front(c, i) ==
    IF c.fault # "none" THEN c
    ELSE IF Len(c.entries) = 1 THEN [c EXCEPT !.tail = i, !.head = i]
    ELSE IF ~InBounds(c, i) THEN Panic(c)
    ELSE LET c1 == [c EXCEPT !.entries[i + 1].next = c.head]
         IN  IF ~InBounds(c1, c1.head) THEN Panic(c1)
             ELSE [c1 EXCEPT !.entries[c1.head + 1].prev = i, !.head = i]

\* mutant: unlinks the slot from its predecessor but leaves tail on it
remove_keeps_tail(c, i) ==
    IF c.fault # "none" THEN c
    ELSE IF ~InBounds(c, i) THEN Panic(c)
    ELSE LET prev == entry(c, i).prev
             next == entry(c, i).next
             c1 == IF i = c.head THEN [c EXCEPT !.head = next]
                   ELSE IF ~InBounds(c, prev) THEN Panic(c)
                   ELSE [c EXCEPT !.entries[prev + 1].next = next]
         IN  IF c1.fault # "none" THEN c1
             ELSE IF i = c1.tail THEN c1
             ELSE IF ~InBounds(c1, next) THEN Panic(c1)
             ELSE [c1 EXCEPT !.entries[next + 1].prev = prev]

\* mutant: detaching the head slot leaves head on it
remove_keeps_head(c, i) ==
    IF c.fault # "none" THEN c
    ELSE IF ~InBounds(c, i) THEN Panic(c)
    ELSE LET prev == entry(c, i).prev
             next == entry(c, i).next
             c1 == IF i = c.head THEN c
                   ELSE IF ~InBounds(c, prev) THEN Panic(c)
                   ELSE [c EXCEPT !.entries[prev + 1].next = next]
         IN  IF c1.fault # "none" THEN c1
             ELSE IF i = c1.tail THEN [c1 EXCEPT !.tail = prev]
             ELSE IF ~InBounds(c1, next) THEN Panic(c1)
             ELSE [c1 EXCEPT !.entries[next + 1].prev = prev]

remove(c, i) ==
    IF c.fault # "none" THEN c
    ELSE IF ~InBounds(c, i) THEN Panic(c)
    ELSE LET prev == entry(c, i).prev
             next == entry(c, i).next
             c1 == IF i = c.head THEN [c EXCEPT !.head = next]
                   ELSE IF ~InBounds(c, prev) THEN Panic(c)
                   ELSE [c EXCEPT !.entries[prev + 1].next = next]
         IN  IF c1.fault # "none" THEN c1
             ELSE IF i = c1.tail THEN [c1 EXCEPT !.tail = prev]
             ELSE IF ~InBounds(c1, next) THEN Panic(c1)
             ELSE [c1 EXCEPT !.entries[next + 1].prev = prev]

\* mutant: a hit is reported but the slot is not moved
touch_index_skip(c, i) == c

\* mutant: promotes by exchanging the values of slot i and the head slot
touch_index_swap(c, i) ==
    IF i # c.head /\ InBounds(c, i) /\ InBounds(c, c.head)
    THEN [c EXCEPT !.entries[i + 1].val = entry(c, c.head).val,
                   !.entries[c.head + 1].val = entry(c, i).val]
    ELSE c

touch_index(c, i) ==
    IF i # c.head THEN push_front(remove(c, i), i) ELSE c

\* mutant: a full cache hands back the value just written, not the one replaced
insert_returns_new(c, val) ==
    IF is_full(c)
    THEN LET pb == pop_back(c)
         IN  IF pb.c.fault # "none" THEN Result(pb.c, None)
             ELSE IF ~InBounds(pb.c, pb.i) THEN Result(Panic(pb.c), None)
             ELSE LET c2 == [pb.c EXCEPT !.entries[pb.i + 1] = Entry(val)]
                  IN  Result(push_front(c2, pb.i), Some(entry(c2, pb.i).val))
    ELSE LET i == AsU16(Len(c.entries))
             c2 == [c EXCEPT !.entries = Append(c.entries, Entry(val))]
         IN  Result(push_front(c2, i), None)

insert(c, val) ==
    IF is_full(c)
    THEN LET pb == pop_back(c)
         IN  IF pb.c.fault # "none" THEN Result(pb.c, None)
             ELSE IF ~InBounds(pb.c, pb.i) THEN Result(Panic(pb.c), None)
             ELSE LET old_entry == entry(pb.c, pb.i)
                      c2 == [pb.c EXCEPT !.entries[pb.i + 1] = Entry(val)]
                  IN  Result(push_front(c2, pb.i), Some(old_entry.val))
    ELSE LET i == AsU16(Len(c.entries))
             c2 == [c EXCEPT !.entries = Append(c.entries, Entry(val))]
         IN  Result(push_front(c2, i), None)

clear(c) == [c EXCEPT !.entries = <<>>]

\* mutant: hands out the value at the least recently used end
front_mut_tail(c) ==
    IF c.tail < Len(c.entries) THEN Some(entry(c, c.tail).val) ELSE None

front_mut(c) ==
    IF c.head < Len(c.entries) THEN Some(entry(c, c.head).val) ELSE None

\* ---- iteration --------------------------------------------------------
\* mutant: the scan starts at the least recently used end
iter_mut_from_tail(c) == c.tail

iter_mut(c) == c.head

\* IterMut::next at cursor pos: nothing when pos is past the storage
next(c, pos) ==
    IF pos < Len(c.entries)
    THEN [some |-> TRUE, index |-> pos, val |-> entry(c, pos).val,
          pos |-> IF pos = c.tail THEN AsU16(c.N) ELSE entry(c, pos).next]
    ELSE [some |-> FALSE, index |-> pos, val |-> 0, pos |-> pos]

\* The cursor is the whole state of a scan, so a scan that has yielded more
\* than len items has repeated a cursor and never ends.
ScanFuel(c) == Len(c.entries) + 1

RECURSIVE touch_loop(_, _, _, _)
touch_loop(c, pos, pred, fuel) ==
    IF fuel = 0 THEN Result([c EXCEPT !.fault = "hang"], Bool(FALSE))
    ELSE LET r == next(c, pos)
         IN  IF ~r.some THEN Result(c, Bool(FALSE))
             ELSE IF r.val \in pred THEN Result(touch_index(c, r.index), Bool(TRUE))
             ELSE touch_loop(c, r.pos, pred, fuel - 1)

\* mutant: on a match the slot promoted is the tail, not the slot matched
touch_promotes_tail(c, pred) ==
    LET t == touch_loop(c, iter_mut(c), pred, ScanFuel(c) + 1)
    IN  IF t.ret = Bool(TRUE) THEN Result(touch_index(c, c.tail), Bool(TRUE))
        ELSE t

touch(c, pred) == touch_loop(c, iter_mut(c), pred, ScanFuel(c) + 1)

\* mutant: hands out the front value whether or not the scan matched
find_always_front(c, pred) ==
    LET t == touch(c, pred)
    IN  IF t.ret.kind \in {"true", "false"} THEN Result(t.c, front_mut(t.c))
        ELSE t

find(c, pred) ==
    LET t == touch(c, pred)
    IN  IF t.ret.kind = "true" THEN Result(t.c, front_mut(t.c))
        ELSE IF t.ret.kind = "false" THEN Result(t.c, None)
        ELSE t

\* items yielded by iterating from head, as <<index, value>> records; a scan
\* that never ends is cut after ScanFuel items
RECURSIVE Collect(_, _, _)
Collect(c, pos, fuel) ==
    IF fuel = 0 THEN <<>>
    ELSE LET r == next(c, pos)
         IN  IF r.some THEN <<[index |-> r.index, val |-> r.val]>> \o Collect(c, r.pos, fuel - 1)
             ELSE <<>>

Iter(c) == Collect(c, iter_mut(c), ScanFuel(c))
IterVals(c) == [k \in 1..Len(Iter(c)) |-> Iter(c)[k].val]
IterIdx(c) == [k \in 1..Len(Iter(c)) |-> Iter(c)[k].index]

\* ---- reference recency list -------------------------------------------
FirstMatch(s, pred) ==
    IF \E k \in 1..Len(s) : s[k] \in pred
    THEN CHOOSE k \in 1..Len(s) : s[k] \in pred /\ \A j \in 1..(k - 1) : s[j] \notin pred
    ELSE 0

MoveToFront(s, k) ==
    IF k = 0 THEN s
    ELSE <<s[k]>> \o SubSeq(s, 1, k - 1) \o SubSeq(s, k + 1, Len(s))

RefInsert(s, cap, v) ==
    IF cap = 0 THEN <<>>
    ELSE IF Len(s) >= cap THEN <<v>> \o SubSeq(s, 1, cap - 1)
    ELSE <<v>> \o s

RefTouch(s, pred) == MoveToFront(s, FirstMatch(s, pred))

\* the value a full reference list gives up when a value is inserted
RefEvict(s, cap) ==
    IF cap >= 1 /\ Len(s) >= cap THEN Some(s[Len(s)]) ELSE None

\* ---- the state machine -------------------------------------------------
Init ==
    /\ N \in Capacities
    /\ constructed = FALSE
    /\ entries = <<>>
    /\ head = 0
    /\ tail = 0
    /\ fault = "none"
    /\ op = "none"
    /\ ret = Unit
    /\ used = 0
    /\ inserts = 0
    /\ log = <<>>
    /\ cleared = FALSE
    /\ recency = <<>>
    /\ refRet = None
    /\ fresh = new(N)
    /\ freshRet = Unit

Running == constructed /\ fault = "none"

\* every insert since the last new()/clear() is in the log: no find/touch was
\* called after the first of them
InsertsOnly == Len(log) = inserts

Store(c) ==
    /\ entries' = c.entries
    /\ head' = c.head
    /\ tail' = c.tail
    /\ fault' = c.fault

CallNew ==
    /\ ~constructed
    /\ constructed' = TRUE
    /\ Store(new(N))
    /\ op' = "new"
    /\ ret' = Unit
    /\ fresh' = new(N)
    /\ freshRet' = Unit
    /\ UNCHANGED <<N, used, inserts, log, cleared, recency, refRet>>

\* The code never inspects a value (T has no bounds, only the caller's predicate
\* reads it), so every run is a renaming of one that hands insert its values in
\* the order 1, 2, 3, ...: a value not seen before is always the next number.
CallInsert(v) ==
    /\ Running
    /\ op' = "insert"
    /\ inserts < MaxInserts
    /\ v <= used + 1
    /\ used' = IF v > used THEN v ELSE used
    /\ LET r == insert(Self, v)
           f == insert(fresh, v)
       IN  /\ Store(r.c)
           /\ ret' = r.ret
           /\ fresh' = f.c
           /\ freshRet' = f.ret
    /\ inserts' = inserts + 1
    /\ log' = Append(log, v)
    /\ recency' = RefInsert(recency, N, v)
    /\ refRet' = RefEvict(recency, N)
    /\ UNCHANGED <<N, constructed, cleared>>

CallTouch(pred) ==
    /\ Running
    /\ op' = "touch"
    /\ LET r == touch(Self, pred)
           f == touch(fresh, pred)
       IN  /\ Store(r.c)
           /\ ret' = r.ret
           /\ fresh' = f.c
           /\ freshRet' = f.ret
    /\ log' = <<>>
    /\ recency' = RefTouch(recency, pred)
    /\ refRet' = None
    /\ UNCHANGED <<N, constructed, used, inserts, cleared>>

CallFind(pred) ==
    /\ Running
    /\ op' = "find"
    /\ LET r == find(Self, pred)
           f == find(fresh, pred)
       IN  /\ Store(r.c)
           /\ ret' = r.ret
           /\ fresh' = f.c
           /\ freshRet' = f.ret
    /\ log' = <<>>
    /\ recency' = RefTouch(recency, pred)
    /\ refRet' = None
    /\ UNCHANGED <<N, constructed, used, inserts, cleared>>

CallClear ==
    /\ Running
    /\ Store(clear(Self))
    /\ op' = "clear"
    /\ ret' = Unit
    /\ fresh' = new(N)
    /\ freshRet' = Unit
    /\ inserts' = 0
    /\ log' = <<>>
    /\ cleared' = TRUE
    /\ recency' = <<>>
    /\ refRet' = None
    /\ used' = 0
    /\ UNCHANGED <<N, constructed>>

CallLen ==
    /\ Running
    /\ op' = "len"
    /\ ret' = Usize(len(Self))
    /\ freshRet' = Usize(len(fresh))
    /\ refRet' = None
    /\ UNCHANGED <<N, constructed, entries, head, tail, fault, used, inserts, log,
                   cleared, recency, fresh>>

CallIsEmpty ==
    /\ Running
    /\ op' = "is_empty"
    /\ ret' = Bool(is_empty(Self))
    /\ freshRet' = Bool(is_empty(fresh))
    /\ refRet' = None
    /\ UNCHANGED <<N, constructed, entries, head, tail, fault, used, inserts, log,
                   cleared, recency, fresh>>

Next ==
    \/ CallNew
    \/ \E v \in Values : CallInsert(v)
    \/ \E pred \in Preds : CallTouch(pred)
    \/ \E pred \in Preds : CallFind(pred)
    \/ CallClear
    \/ CallLen
    \/ CallIsEmpty

Spec == Init /\ [][Next]_vars


\* ---- helpers of the properties ----------------------------------------
Distinct(s) == \A i, j \in 1..Len(s) : i # j => s[i] # s[j]
Reverse(s) == [k \in 1..Len(s) |-> s[Len(s) + 1 - k]]
Min(a, b) == IF a <= b THEN a ELSE b
Stored(c) == {c.entries[k].val : k \in 1..Len(c.entries)}
Matches(c, pred) == \E k \in 1..Len(c.entries) : c.entries[k].val \in pred

\* C1: eviction is strict LRU.  For every capacity N >= 1 and in every state
\* reached by insert, find, touch (and clear), insert on a full cache returns the
\* last element of the reference recency list, the list that moves every
\* inserted value and every value matched by find/touch to its front.  (Checked
\* for all value sequences; with distinct values the last element is the value
\* that has gone longest without being inserted or matched.)
C1_EvictionIsStrictLRU ==
    (constructed /\ N >= 1)
      => /\ op = "insert" => ret = refRet
         /\ (Running /\ len(Self) = N)
              => /\ Len(recency) = N
                 /\ \A v \in Values : insert(Self, v).ret = Some(recency[Len(recency)])

\* three distinct values went into a cache of two slots with a find/touch in
\* between, and the third insert evicted the second value (slot 1), not the first
C1_Witness ==
    /\ op = "insert" /\ ret.kind = "Some" /\ N = 2
    /\ ~cleared /\ ~InsertsOnly /\ inserts = 3
    /\ Cardinality(Stored(Self) \cup {ret.val}) = 3
    /\ head = 1

\* C2: for N >= 1, len() <= N in every state, and on a cache that was never
\* cleared len() = min(number of inserts so far, N), find/touch interleaved.
C2_LenIsMinInsertsCapacity ==
    (constructed /\ N >= 1)
      => /\ len(Self) <= N
         /\ ~cleared => len(Self) = Min(inserts, N)

C2_Witness ==
    /\ constructed /\ N >= 2 /\ ~cleared /\ ~InsertsOnly
    /\ inserts > N /\ len(Self) = N

\* C3: for N >= 1, right after insert(v) the first item of the iteration from
\* head is v: head is an occupied slot and holds v (full, partly filled and
\* just-cleared caches alike).
C3_InsertedValueIsFirst ==
    (op = "insert" /\ N >= 1)
      => /\ log # <<>>
         /\ Iter(Self) # <<>>
         /\ Iter(Self)[1] = [index |-> head, val |-> log[Len(log)]]

\* an insert that evicted, on a cache that had been cleared before
C3_Witness ==
    /\ op = "insert" /\ cleared /\ ret.kind = "Some" /\ N >= 2
    /\ ret.val # log[Len(log)]

\* C4: when find(pred)/touch(pred) is called and some stored value satisfies
\* pred, the slot promoted is the first one in head-to-tail order whose value
\* satisfies pred, and after the call that slot (same index, same value) is
\* first in the iteration order.
C4_FirstMatchIsPromoted ==
    Running =>
      \A pred \in Preds :
        Matches(Self, pred) =>
          \A order \in {Iter(Self)} :
            \A k \in {FirstMatch([j \in 1..Len(order) |-> order[j].val], pred)} :
              \A r \in {touch(Self, pred), find(Self, pred)} :
                /\ k >= 1
                /\ r.ret \in {Bool(TRUE), Some(order[k].val)}
                /\ r.c.head = order[k].index
                /\ Iter(r.c) # <<>>
                /\ Iter(r.c)[1] = order[k]

\* a hit on a cache of three slots holding the matched value twice, where the
\* promoted slot is neither slot 0 nor the last slot appended
C4_Witness ==
    /\ op \in {"touch", "find"} /\ ret.kind \in {"true", "Some"}
    /\ len(Self) = 3 /\ head = 1
    /\ \E k \in {1, 3} : entries[k].val = entries[2].val

\* C5: when find(pred)/touch(pred) is called and no stored value satisfies
\* pred (the cache may be empty or just cleared), find returns nothing, touch
\* returns false, and head, tail, every slot's links and value, and len are
\* unchanged.
C5_NoMatchChangesNothing ==
    Running =>
      \A pred \in Preds :
        ~Matches(Self, pred) =>
          /\ touch(Self, pred) = [c |-> Self, ret |-> Bool(FALSE)]
          /\ find(Self, pred) = [c |-> Self, ret |-> None]

\* a find that found nothing in a cache of at least two elements
C5_Witness ==
    /\ op = "find" /\ ret = None /\ len(Self) >= 2

\* C6: after clear(), any sequence of inserts gives the same return values, the
\* same len() and the same iteration order after every step as the same
\* inserts on a newly constructed cache of the same capacity.
C6_ClearEquivalentToNew ==
    (cleared /\ InsertsOnly)
      => /\ ret = freshRet
         /\ len(Self) = len(fresh)
         /\ IterVals(Self) = IterVals(fresh)

\* inserts after a clear filled the cache again and evicted
C6_Witness ==
    /\ cleared /\ InsertsOnly /\ op = "insert" /\ ret.kind = "Some"
    /\ N = 2 /\ IterVals(Self) = IterVals(fresh)

\* C7: on a fresh cache of capacity N >= 1, after inserting N distinct values
\* the iteration from head yields them in reverse insertion order, each once.
C7_RoundTripReverseOrder ==
    (constructed /\ ~cleared /\ InsertsOnly /\ N >= 1 /\ Len(log) = N /\ Distinct(log))
      => IterVals(Self) = Reverse(log)

C7_Witness ==
    /\ constructed /\ ~cleared /\ InsertsOnly /\ N = 3 /\ Len(log) = N
    /\ Distinct(log) /\ op = "insert" /\ IterVals(Self) = Reverse(log)

C9_ConstructionFailsFast ==
    constructed => (N < U16Max /\ AsU16(N) = N)

\* C10: on every cache new() returns, every call of insert, find, touch, clear,
\* len and is_empty returns normally: no panic on an index outside the occupied
\* storage and no scan that never ends.
C10_AllOperationsTotal ==
    constructed => (fault = "none" /\ ret.kind \notin {"panic", "hang"})

\* C11: find and touch are the same state transition.  In every reachable state
\* and for every predicate, find(pred) and touch(pred) leave the cache in the
\* same state, find returns a reference exactly when touch returns true, and the
\* reference is to the value of the first matching element, which is then the
\* value of the head slot.
C11_FindIsTouchPlusFront ==
    Running =>
      \A pred \in Preds :
        \A t \in {touch(Self, pred)} : \A f \in {find(Self, pred)} :
          \A k \in {FirstMatch(IterVals(Self), pred)} :
            /\ f.c = t.c
            /\ (f.ret.kind = "Some") <=> (t.ret = Bool(TRUE))
            /\ (f.ret.kind = "Some")
                 => /\ k >= 1
                    /\ f.ret.val = IterVals(Self)[k]
                    /\ InBounds(f.c, f.c.head)
                    /\ f.ret.val = entry(f.c, f.c.head).val

\* a find returned a reference to a value that was not at the head before:
\* three slots, the hit left slot 1 at the head and slot 2 (the old head) second
C11_Witness ==
    /\ op = "find" /\ ret.kind = "Some" /\ len(Self) = 3
    /\ head = 1 /\ entry(Self, head).next = 2
    /\ ret.val = entry(Self, head).val

\* the slot indices met by following a link k times from pos: by = "next" or
\* "prev"; an index outside the occupied storage ends the walk
RECURSIVE Walk(_, _, _, _)
Walk(c, by, pos, k) ==
    IF k = 0 THEN <<>>
    ELSE IF ~InBounds(c, pos) THEN <<pos>>
    ELSE <<pos>> \o Walk(c, by, IF by = "next" THEN entry(c, pos).next ELSE entry(c, pos).prev, k - 1)

NextWalk(c) == Walk(c, "next", c.head, len(c))
PrevWalk(c) == Walk(c, "prev", c.tail, len(c))

\* the chain invariant of a non-empty cache
ChainOK(c) ==
    len(c) >= 1
      => /\ Len(NextWalk(c)) = len(c)
         /\ {NextWalk(c)[k] : k \in 1..len(c)} = 0..(len(c) - 1)
         /\ NextWalk(c)[len(c)] = c.tail
         /\ PrevWalk(c) = Reverse(NextWalk(c))
         /\ PrevWalk(c)[len(c)] = c.head

\* C12: chain invariant.  In every reachable state with len >= 1, following
\* next from head visits every occupied slot index 0..len-1 exactly once and is
\* at tail after len slots, and following prev from tail visits the same slots
\* in the reverse order and is at head after len slots.
C12_ChainInvariant ==
    constructed => ChainOK(Self)

\* a full cache of three slots, filled again after a clear and reordered by a
\* find/touch that promoted the tail
C12_Witness ==
    /\ cleared /\ len(Self) = 3 /\ op \in {"touch", "find"}
    /\ head = 0 /\ tail = 1 /\ ChainOK(Self)

\* C13 as stated: in every reachable state, head == tail if and only if the
\* cache holds exactly one element (taken on the capacities 1..MaxN, where
\* every operation is total, so that the failure is the claim's own).
C13_Original ==
    (constructed /\ N \in 1..MaxN) => ((head = tail) <=> (len(Self) = 1))

\* C13 amended: in every reachable state of a non-empty cache, head == tail if
\* and only if the cache holds exactly one element (on an empty cache, fresh or
\* cleared, head and tail are left-over u16 values and may be equal).
C13_HeadIsTailIffOne ==
    (constructed /\ len(Self) >= 1) => ((head = tail) <=> (len(Self) = 1))

\* the first insert after a clear of a full cache of two or more slots
C13_Witness ==
    /\ cleared /\ N >= 2 /\ op = "insert" /\ len(Self) = 1 /\ head = tail

\* C14: clear() sets the length to 0 and makes is_empty() true while leaving
\* head and tail at their old values, and the first insert afterwards sets both
\* head and tail to the index of the new slot.
C14_ClearThenInsert ==
    Running =>
      \A c1 \in {clear(Self)} :
        /\ len(c1) = 0
        /\ is_empty(c1) = TRUE
        /\ c1.head = head /\ c1.tail = tail
        /\ \A v \in Values :
             \A r \in {insert(c1, v)} :
               /\ r.c.fault = "none"
               /\ len(r.c) = 1
               /\ r.c.head = 0 /\ r.c.tail = 0
               /\ entry(r.c, 0).val = v

\* C15: in every reachable state, iteration from head terminates and yields
\* exactly len() elements, each slot once.  (Iter is cut after len() + 1 items:
\* a scan that long has repeated a cursor and never ends.)
C15_IterationYieldsLen ==
    Running =>
      /\ Len(Iter(Self)) = len(Self)
      /\ Distinct(IterIdx(Self))

\* C16: insert on a full cache reuses the tail slot in place: the new value is
\* written into the slot that was tail before the call, that slot is head after
\* the call, tail becomes the old tail's predecessor (for N >= 2), len() stays N
\* and the value of every other slot is unchanged.
C16_FullInsertReusesTail ==
    (Running /\ is_full(Self)) =>
      \A v \in Values :
        \A r \in {insert(Self, v)} :
          /\ r.c.fault = "none"
          /\ InBounds(Self, tail)
          /\ entry(r.c, tail).val = v
          /\ r.c.head = tail
          /\ (N >= 2) => (r.c.tail = entry(Self, tail).prev)
          /\ len(r.c) = N
          /\ \A i \in 0..(N - 1) :
               (i # tail) => (entry(r.c, i).val = entry(Self, i).val)

\* the slots of `post` hold the values the slots of `pre` hold
SameSlotValues(pre, post) ==
    /\ len(post) = len(pre)
    /\ \A i \in 0..(len(pre) - 1) : entry(post, i).val = entry(pre, i).val

\* C17: find and touch only reorder: from every reachable state and for every
\* predicate they change neither len() nor the value stored at any slot index;
\* and an insert changes the value of an occupied slot only when the cache is
\* full and the slot is its tail.
C17_FindTouchOnlyReorder ==
    Running =>
      /\ \A pred \in Preds :
           /\ SameSlotValues(Self, touch(Self, pred).c)
           /\ SameSlotValues(Self, find(Self, pred).c)
      /\ \A v \in Values :
           \A r \in {insert(Self, v).c} :
             /\ len(r) >= len(Self)
             /\ \A i \in 0..(len(Self) - 1) :
                  (entry(r, i).val # entry(Self, i).val)
                    => (is_full(Self) /\ i = tail)

\* a touch has promoted the oldest of three slots: the values sit where the
\* inserts wrote them
C17_Witness ==
    /\ op = "touch" /\ ret = Bool(TRUE) /\ len(Self) = 3
    /\ head = 0 /\ tail = 1
    /\ \A i \in 0..2 : entry(Self, i).val = i + 1

\* the iteration from head as (index, value) items, followed for twice the
\* length at which a scan is known not to end
IterTwice(c) == Collect(c, iter_mut(c), 2 * ScanFuel(c))

\* C18: a matching find/touch moves only the matched element: the iteration
\* order after the call is the order before the call with the first matching
\* item taken from its position and placed first, so the other items keep their
\* relative order and the stored values are the same.
C18_MatchMovesOnlyMatched ==
    Running =>
      \A pred \in Preds :
        Matches(Self, pred) =>
          \A before \in {IterTwice(Self)} :
            \A k \in {FirstMatch([j \in 1..Len(before) |-> before[j].val], pred)} :
              /\ k >= 1
              /\ IterTwice(touch(Self, pred).c) = MoveToFront(before, k)
              /\ IterTwice(find(Self, pred).c) = MoveToFront(before, k)

\* C19: touch is idempotent for a fixed predicate: from every reachable state,
\* touch(pred) followed by touch(pred) leaves exactly the state (head, tail,
\* links, values) a single touch(pred) leaves, and a touch whose first match is
\* already the head changes nothing.
C19_TouchIdempotent ==
    Running =>
      \A pred \in Preds :
        \A t1 \in {touch(Self, pred)} :
          /\ touch(t1.c, pred).c = t1.c
          /\ touch(t1.c, pred).ret = t1.ret
          /\ (InBounds(Self, head) /\ entry(Self, head).val \in pred)
               => (t1.c = Self /\ t1.ret = Bool(TRUE))

\* a touch has promoted the middle one of three slots, and touching the value
\* now at head again leaves the state as it is
C19_Witness ==
    /\ op = "touch" /\ ret = Bool(TRUE) /\ len(Self) = 3
    /\ head = 1 /\ tail = 0
    /\ Distinct(IterVals(Self))
    /\ touch(Self, {entry(Self, head).val}).c = Self

\* C20: the relinking primitives are safe at every chain position: in every
\* reachable state that satisfies the chain invariant and for every occupied
\* slot i (the head, the tail, an interior slot or the only slot), remove(i)
\* followed by push_front(i) accesses no slot outside the storage and yields a
\* state that satisfies the chain invariant with i as head, and with i as tail
\* too when it is the only element.
C20_RelinkSafeEverywhere ==
    (Running /\ ChainOK(Self)) =>
      \A i \in 0..(len(Self) - 1) :
        \A r \in {push_front(remove(Self, i), i)} :
          /\ r.fault = "none"
          /\ ChainOK(r)
          /\ r.head = i
          /\ (len(Self) = 1) => (r.tail = i)
          /\ SameSlotValues(Self, r)

\* three slots on a cache cleared before, so that head, tail and the interior
\* slot are three cases, relinked with left-over prev/next values around
C20_Witness ==
    /\ cleared /\ len(Self) = 3 /\ ChainOK(Self)
    /\ head = 2 /\ tail = 0
    /\ push_front(remove(Self, head), head).head = head
    /\ push_front(remove(Self, 1), 1).tail = tail
    /\ push_front(remove(Self, tail), tail).tail = 1

TypeOK ==
    /\ N \in Capacities
    /\ head \in 0..U16Max
    /\ tail \in 0..U16Max
    /\ fault \in {"none", "panic", "hang"}
====
